---- MODULE Spec2Model ----
(***************************************************************************)
(* Model of the turn-execution loop (Agent.run_full_turn) and the item     *)
(* dispatcher (Agent.handle_item) of src/agent/agent.py.                   *)
(*                                                                         *)
(* The response service, the computer (target surface), the safety-check   *)
(* callback and the logger are collaborators: what they return is chosen   *)
(* nondeterministically, what is asked of them is recorded in `trace`.     *)
(***************************************************************************)
EXTENDS Integers, Sequences, FiniteSets, TLC

\* ---------------------------------------------------------------- bounds
MaxActions  == 2   \* largest value of the max_actions parameter explored
MaxItems    == 2   \* longest "output" list of one response
MaxService  == 2   \* items the service returns over one run, in total;
                   \* after that its responses have no "output"
MaxChecks   == 2   \* longest pending_safety_checks list

None == "None"

\* ------------------------------------------------------- the collaborators
\* attributes of the computer object that hasattr/getattr can find
ComputerAttrs == {"click", "goto"}
\* names the service may put in a function_call ("goto" the computer has)
FunctionNames == {"goto", "teleport"}

URLs        == {"https://ok.example", "https://blocked.example"}
BlockedURLs == {"https://blocked.example"}

AllChecks == <<"check1", "check2", "check3", "check4">>
\* the pending_safety_checks lists the service sends: none, or MaxChecks of them
CheckLists == { [i \in 1..n |-> [message |-> AllChecks[i]]] : n \in {0, MaxChecks} }

\* what the computer offers as page metadata: `callable` says whether it has
\* a get_page_metadata method, `value` is the dict that method returns
\* (<<>> stands for both None and {}, which `or {}` makes the same)
MetaChoices ==
    { [callable |-> FALSE, value |-> <<>>] }
    \cup { [callable |-> TRUE,
            value |-> [full_url |-> u, page_title |-> "Title", domain |-> "example"]]
          : u \in URLs }

\* ------------------------------------------------------------ dict helpers
\* dict.get(key, default)
Get(d, key, default) == IF key \in DOMAIN d THEN d[key] ELSE default

\* {k: v for k, v in action.items() if k != "type"}
WithoutType(action) == [k \in (DOMAIN action) \ {"type"} |-> action[k]]

\* json.loads on the argument strings the service sends
JsonLoads(s) ==
    CASE s = "{\"url\": \"https://ok.example\"}" -> [url |-> "https://ok.example"]
      [] s = "{}" -> <<>>

Last(s) == s[Len(s)]

\* ------------------------------------------------------------------- items
AssistantMessage ==
    [type |-> "message", role |-> "assistant", content |-> <<[text |-> "done"]>>]

ReasoningItem == [type |-> "reasoning", summary |-> <<>>]

FunctionCall(name, cid) ==
    [type |-> "function_call", name |-> name, call_id |-> cid,
     arguments |-> IF name = "goto" THEN "{\"url\": \"https://ok.example\"}" ELSE "{}"]

ComputerCall(atype, checks, cid) ==
    [type |-> "computer_call", call_id |-> cid,
     action |-> [type |-> atype, x |-> 10, y |-> 20],
     pending_safety_checks |-> checks]

\* items the service can return, before their call ids are given.
\* "click" is an action the computer has, "fly" one it has not
ServiceItems ==
    {AssistantMessage, ReasoningItem}
    \cup { FunctionCall(n, 0) : n \in FunctionNames }
    \cup { ComputerCall("click", c, 0) : c \in CheckLists }
    \cup { ComputerCall("fly", c, 0) : c \in {cl \in CheckLists : Len(cl) > 0} }

\* the service numbers its calls: every call item gets its own call_id
WithCallId(item, cid) ==
    IF "call_id" \in DOMAIN item THEN [item EXCEPT !.call_id = cid] ELSE item

\* ------------------------------------------------------------- handle_item
\* Every Handle... operator gives the outcome of handle_item for one item:
\*   raised  - the exception that left handle_item, or None
\*   outputs - the returned output_items
\*   events  - the calls made to the computer, the callback and the logger,
\*             in the order they were made
\*   surface - the computer's state afterwards (number of operations run)
Outcome(raised, outputs, events, surface) ==
    [raised |-> raised, outputs |-> outputs, events |-> events, surface |-> surface]

\* LogEvents that logs the record twice
LogEventsTwice(logger, record) ==
    IF logger THEN <<[ev |-> "log", record |-> record], [ev |-> "log", record |-> record]>>
    ELSE <<>>

\* if self.logger: self.logger.log(record)
LogEvents(logger, record) ==
    IF logger THEN <<[ev |-> "log", record |-> record]>> ELSE <<>>

BaseRecord(prompt_id, item) == [prompt_id |-> prompt_id, type |-> Get(item, "type", None)]

MergeRec(a, b) ==
    [k \in (DOMAIN a) \cup (DOMAIN b) |-> IF k \in DOMAIN b THEN b[k] ELSE a[k]]

\* HandleMessage that also takes a screenshot of the computer
HandleMessageWithScreenshot(item, prompt_id, logger, surface) ==
    LET record == MergeRec(BaseRecord(prompt_id, item),
                           [role |-> Get(item, "role", None),
                            content |-> Get(item, "content", None)])
    IN  Outcome(None, <<>>, <<[ev |-> "screenshot"]>> \o LogEvents(logger, record),
                surface)

HandleMessage(item, prompt_id, logger, surface) ==
    LET record == MergeRec(BaseRecord(prompt_id, item),
                           [role |-> Get(item, "role", None),
                            content |-> Get(item, "content", None)])
    IN  Outcome(None, <<>>, LogEvents(logger, record), surface)

HandleReasoning(item, prompt_id, logger, surface) ==
    LET record == MergeRec(BaseRecord(prompt_id, item),
                           [summary |-> Get(item, "summary", None)])
    IN  Outcome(None, <<>>, LogEvents(logger, record), surface)

\* an output only for the functions the computer has
FunctionCallOutputIfFound(item) ==
    IF item.name \in ComputerAttrs
    THEN <<[type |-> "function_call_output", call_id |-> item.call_id,
            output |-> "success"]>>
    ELSE <<>>

\* hasattr(self.computer, name)
HasAttr(name) == name \in ComputerAttrs

FunctionCallOutput(item) ==
    <<[type |-> "function_call_output", call_id |-> item.call_id, output |-> "success"]>>

HandleFunctionCall(item, prompt_id, logger, surface) ==
    LET name == item.name
        args == JsonLoads(item.arguments)
        called == HasAttr(name)
        callEvents == IF called
                      THEN <<[ev |-> "call", name |-> name, args |-> args]>>
                      ELSE <<>>
        record == MergeRec(BaseRecord(prompt_id, item),
                           [name |-> name, arguments |-> args])
    IN  Outcome(None, FunctionCallOutput(item),
                callEvents \o LogEvents(logger, record),
                IF called THEN surface + 1 ELSE surface)

\* getattr with a default that does nothing
GetAttrAlwaysFound(action_type) == TRUE

\* getattr(self.computer, action_type): AttributeError when there is none
GetAttrFound(action_type) == action_type \in ComputerAttrs

Min(S) == CHOOSE x \in S : \A y \in S : x <= y

\* AskChecks with the refusals not looked at: every check is asked and
\* nothing is raised
AskChecksIgnoreAnswer(pending, ans) ==
    [events |-> [i \in 1..Len(pending) |->
                   [ev |-> "acknowledge", message |-> pending[i].message,
                    answer |-> ans[i]]],
     refused |-> FALSE]

\* AskChecks that raises only after all checks were asked
AskChecksRaiseAtEnd(pending, ans) ==
    [events |-> [i \in 1..Len(pending) |->
                   [ev |-> "acknowledge", message |-> pending[i].message,
                    answer |-> ans[i]]],
     refused |-> \E i \in 1..Len(pending) : ~ans[i]]

\* for check in pending_checks: the callback is asked check by check and the
\* first refusal raises.  ans[i] is what the callback answers to check i.
\* asked = number of checks put to the callback, refused = one said no
AskChecks(pending, ans) ==
    LET refusals == {i \in 1..Len(pending) : ~ans[i]}
        asked == IF refusals = {} THEN Len(pending) ELSE Min(refusals)
    IN  [events |-> [i \in 1..asked |->
                       [ev |-> "acknowledge", message |-> pending[i].message,
                        answer |-> ans[i]]],
         refused |-> refusals # {}]

\* utils.check_blocklisted_url: raises ValueError for a denylisted URL
CheckBlocklistedUrl(url) == url \in BlockedURLs

\* PageMetadata with the raw URL written over the metadata's own full_url
PageMetadataRawUrl(meta, current_url) ==
    LET metadata == IF meta.callable THEN meta.value ELSE <<>>
    IN  MergeRec(metadata, [full_url |-> current_url])

\* lines 121-127: metadata = get_metadata() or {}; fill in full_url
PageMetadata(meta, current_url) ==
    LET metadata == IF meta.callable THEN meta.value ELSE <<>>
    IN  IF Get(metadata, "full_url", "") = ""
        THEN MergeRec(metadata, [full_url |-> current_url])
        ELSE metadata

\* ActAndAsk with the questions first and the action only when all were
\* acknowledged
AskThenAct(callEvents, asked) ==
    [events |-> asked.events \o (IF asked.refused THEN <<>> ELSE callEvents),
     acted |-> ~asked.refused]

\* lines 90-104: the order of the action, the screenshot and the questions.
\* acted says whether the computer ran the action
ActAndAsk(callEvents, asked) ==
    [events |-> callEvents \o asked.events, acted |-> TRUE]

\* ComputerCallOutput that does not copy the call's call_id
ComputerCallOutputNoCallId(item, pending, screenshot) ==
    [type |-> "computer_call_output",
     call_id |-> 0,
     acknowledged_safety_checks |-> pending,
     output |-> [type |-> "input_image",
                 image_url |-> <<"data:image/png;base64,", screenshot>>]]

ComputerCallOutput(item, pending, screenshot) ==
    [type |-> "computer_call_output",
     call_id |-> item.call_id,
     acknowledged_safety_checks |-> pending,
     output |-> [type |-> "input_image",
                 image_url |-> <<"data:image/png;base64,", screenshot>>]]

\* BlockedOutcome that logs a record of the call before the error leaves
BlockedOutcomeLogged(call_output, events, surface) ==
    Outcome("ValueError", <<>>,
            events \o <<[ev |-> "log",
                         record |-> [type |-> "computer_call",
                                     call_id |-> call_output.call_id]]>>,
            surface)

\* BlockedOutcome that only warns: the call's output is returned all the same
BlockedOutcomeWarnOnly(call_output, events, surface) ==
    Outcome(None, <<call_output>>, events, surface)

\* line 119: check_blocklisted_url raised; the exception leaves handle_item,
\* the call_output built at lines 106-114 is dropped and nothing is logged
BlockedOutcome(call_output, events, surface) ==
    Outcome("ValueError", <<>>, events, surface)

\* lines 117-134, after the URL passed the denylist
BrowserOutcome(item, prompt_id, logger, surface, call_output, record, events, meta, url) ==
    LET metadata == PageMetadata(meta, url)
        metaEvents == IF meta.callable
                      THEN <<[ev |-> "get_page_metadata", value |-> meta.value]>>
                      ELSE <<>>
        out1 == MergeRec(call_output.output,
                         [current_url |-> Get(metadata, "full_url", url)])
        truthy == DOMAIN metadata # {}
        out2 == IF truthy THEN MergeRec(out1, [page_metadata |-> metadata]) ELSE out1
        rec2 == IF truthy THEN MergeRec(record, [page_metadata |-> metadata])
                          ELSE MergeRec(record, [current_url |-> url])
    IN  Outcome(None, <<[call_output EXCEPT !.output = out2]>>,
                events \o metaEvents \o LogEvents(logger, rec2), surface)

\* lines 83-143.  environment, ans, url, meta: what the computer and the
\* callback answer during this call
HandleComputerCall(item, prompt_id, logger, surface, environment, ans, url, meta) ==
    LET action == item.action
        action_type == action.type
        action_args == WithoutType(action)
    IN  IF ~GetAttrFound(action_type)
        THEN Outcome("AttributeError", <<>>, <<>>, surface)
        ELSE
        LET pending_checks == Get(item, "pending_safety_checks", <<>>)
            asked == AskChecks(pending_checks, ans)
            done == ActAndAsk(<<[ev |-> "call", name |-> action_type, args |-> action_args],
                                [ev |-> "screenshot"]>>, asked)
            ev2 == done.events
            surface1 == IF done.acted THEN surface + 1 ELSE surface
            screenshot_base64 == surface1
        IN  IF asked.refused
            THEN Outcome("ValueError", <<>>, ev2, surface1)
            ELSE
            LET call_output == ComputerCallOutput(item, pending_checks, screenshot_base64)
                record == MergeRec(BaseRecord(prompt_id, item),
                                   [action |-> action,
                                    call_id |-> Get(item, "call_id", None),
                                    screenshot |-> screenshot_base64])
            IN  IF environment = "browser"
                THEN LET ev3 == ev2 \o <<[ev |-> "get_current_url", url |-> url]>>
                     IN  IF CheckBlocklistedUrl(url)
                         THEN BlockedOutcome(call_output, ev3, surface1)
                         ELSE BrowserOutcome(item, prompt_id, logger, surface1,
                                             call_output, record, ev3, meta, url)
                ELSE Outcome(None, <<call_output>>,
                             ev2 \o LogEvents(logger, record), surface1)

\* handle_item: dispatch on item["type"]; an unknown type is only logged
HandleItem(item, prompt_id, logger, surface, environment, ans, url, meta) ==
    CASE item.type \in {"message", "max-actions"} ->
            HandleMessage(item, prompt_id, logger, surface)
      [] item.type = "function_call" ->
            HandleFunctionCall(item, prompt_id, logger, surface)
      [] item.type = "computer_call" ->
            HandleComputerCall(item, prompt_id, logger, surface, environment, ans, url, meta)
      [] item.type = "reasoning" ->
            HandleReasoning(item, prompt_id, logger, surface)
      [] OTHER ->
            Outcome(None, <<>>, LogEvents(logger, BaseRecord(prompt_id, item)), surface)

\* ----------------------------------------------------------- run_full_turn
VARIABLES
    input_items,        \* the caller's history (parameter)
    max_actions,        \* parameter: <<>> for None, <<n>> for the number n
    debug,              \* parameter
    logger,             \* TRUE when self.logger is set
    environment,        \* what computer.get_environment() says
    current_prompt_id,  \* self.current_prompt_id
    new_items,          \* local new_items
    action_count,       \* local action_count
    pc,                 \* "loop": top of while; "for": in the for loop over
                        \* response["output"]; "returned"; "raised"
    output,             \* response["output"] of the response being worked on
    idx,                \* position of the for loop in it
    error,              \* the exception that ended the run, or None
    surface,            \* the computer: number of operations run on it
    served,             \* items the service has returned so far
    trace,              \* requests and handle_item calls so far, in order
    \* ---- src/cli.py, main()
    cli_pc,             \* "off": main is not running; "start"; "read": line 93;
                        \* "turn": inside run_full_turn; "done": left the loop
    items,              \* local items
    args_input,         \* args.input
    stop_on_message,    \* args.stop_on_message
    n_prompts,          \* prompts the logger has recorded so far
    \* ---- src/agent_pool.py, Runner
    pool_pc,            \* "off"; "job": line 227; "run": line 241; "attempt":
                        \* line 247; "wait": line 182; "after": line 249;
                        \* "done": run_simulation returned
    simulation,         \* the jobs of the SIMULATION dict, in insertion order
    stop_requested,     \* self._stop_requested
    job,                \* position of the loop over the jobs
    run_i,              \* i of `for i in range(1, n + 1)`
    attempt,            \* local attempt
    exit_code,          \* what run_job_once returned last
    procs,              \* the child processes started so far, in order
    \* ---- src/analytics/structured_table.py, build_structured_table
    table_pc,           \* "off"; "loop": line 65; "written": line 137
    records,            \* the records of the log file, in order
    pos,                \* how many of them the loop has read
    step_counters,      \* local step_counters
    rows,               \* local rows
    \* ---- src/analytics/logger.py, AnalyticsLogger
    prompts_csv,        \* the rows of prompts.csv, the header first
    steps_csv,          \* the rows of steps.csv, the header first
    screenshot_files,   \* the files of the screenshots directory, by name
    n_uuids,            \* how many uuid4() values were drawn so far
    calls,              \* the calls made on the logger so far, in order
    \* ---- src/agent/agent.py, Agent.__init__ and the tools it sends
    tool_lists,         \* the list objects in memory, by reference
    agents,             \* the Agent instances constructed so far, in order
    sent                \* the last create_response call: who sent which tools

agentVars == <<input_items, max_actions, debug, logger, environment, current_prompt_id,
               new_items, action_count, pc, output, idx, error, surface, served, trace>>
cliVars   == <<cli_pc, items, args_input, stop_on_message, n_prompts>>
poolVars  == <<pool_pc, simulation, stop_requested, job, run_i, attempt, exit_code, procs>>
tableVars == <<table_pc, records, pos, step_counters, rows>>
loggerVars == <<prompts_csv, steps_csv, screenshot_files, n_uuids, calls>>

ctorVars == <<tool_lists, agents, sent>>

vars == <<agentVars, cliVars, poolVars, tableVars, loggerVars, ctorVars>>

\* what a step of run_full_turn leaves alone outside the agent
outside == <<cliVars, poolVars, tableVars, loggerVars, ctorVars>>

params == <<input_items, max_actions, debug, logger, environment, current_prompt_id>>

\* main() of cli.py is not running
CliOff ==
    /\ cli_pc = "off"
    /\ items = <<>>
    /\ args_input = None
    /\ stop_on_message = FALSE
    /\ n_prompts = 0

\* no Runner of agent_pool.py exists
PoolOff ==
    /\ pool_pc = "off"
    /\ simulation = <<>>
    /\ stop_requested = FALSE
    /\ job = 0
    /\ run_i = 0
    /\ attempt = 0
    /\ exit_code = 0
    /\ procs = <<>>

\* build_structured_table is not running
TableOff ==
    /\ table_pc = "off"
    /\ records = <<>>
    /\ pos = 0
    /\ step_counters = <<>>
    /\ rows = <<>>

\* no AnalyticsLogger was constructed
LoggerOff ==
    /\ prompts_csv = <<>>
    /\ steps_csv = <<>>
    /\ screenshot_files = <<>>
    /\ n_uuids = 0
    /\ calls = <<>>

\* no Agent is being constructed
CtorOff ==
    /\ tool_lists = <<>>
    /\ agents = <<>>
    /\ sent = <<>>

UserMessage == [role |-> "user", content |-> "hello"]

Init ==
    /\ input_items \in {<<>>, <<UserMessage>>}
    /\ max_actions \in {<<>>} \cup { <<n>> : n \in 0..MaxActions }
    /\ debug \in BOOLEAN
    /\ logger = TRUE
    /\ environment \in {"browser", "mac"}
    /\ current_prompt_id = "p1"
    /\ new_items = <<>>
    /\ action_count = 0
    /\ pc = "loop"
    /\ output = <<>>
    /\ idx = 0
    /\ error = None
    /\ surface = 0
    /\ served = 0
    /\ trace = <<>>
    /\ CliOff
    /\ PoolOff
    /\ TableOff
    /\ LoggerOff
    /\ CtorOff

\* TerminalCheck without the look at the role
TerminalCheckAnyItem(its) == its # <<>>

\* TerminalCheck that reads "type" where the role is
TerminalCheckTypeForRole(its) ==
    its # <<>> /\ Get(Last(its), "type", None) = "assistant"

\* TerminalCheck that stops on an assistant item anywhere in the list
TerminalCheckAnyAssistant(its) ==
    \E k \in DOMAIN its : Get(its[k], "role", None) = "assistant"

\* line 174: new_items and new_items[-1].get("role") == "assistant"
TerminalCheck(its) == its # <<>> /\ Get(Last(its), "role", None) = "assistant"

\* CeilingCheck with > for >=
CeilingCheckStrict(limit, count) == limit # <<>> /\ count > limit[1]

\* line 177: max_actions is not None and action_count >= max_actions
CeilingCheck(limit, count) == limit # <<>> /\ count >= limit[1]

\* lines 178-190
LimitMessage(limit) ==
    [type |-> "max-actions", role |-> "assistant",
     content |-> <<[text |-> <<"Reached the configured maximum of ", limit[1],
                              " actions without a final assistant response.",
                              " Stopping further processing.">>]>>]

\* what `trace` keeps of one handle_item call
HandleEntry(item, before, outcome) ==
    [kind |-> "handle", item |-> item, raised |-> outcome.raised,
     outputs |-> outcome.outputs, events |-> outcome.events,
     surface_before |-> before, surface_after |-> outcome.surface]

\* lines 174-175
Break ==
    /\ pc = "loop"
    /\ TerminalCheck(new_items)
    /\ pc' = "returned"
    /\ UNCHANGED <<params, new_items, action_count, output, idx, error,
                   surface, served, trace>>
    /\ UNCHANGED outside

\* lines 177-193
Ceiling ==
    /\ pc = "loop"
    /\ ~TerminalCheck(new_items)
    /\ CeilingCheck(max_actions, action_count)
    /\ LET limit_message == LimitMessage(max_actions)
           o == HandleMessage(limit_message, current_prompt_id, logger, surface)
       IN  /\ new_items' = Append(new_items, limit_message) \o o.outputs
           /\ trace' = Append(trace, HandleEntry(limit_message, surface, o))
    /\ pc' = "returned"
    /\ UNCHANGED <<params, action_count, output, idx, error, surface, served>>
    /\ UNCHANGED outside

\* what create_response can give back after `n` items were already served:
\* an output of 1..MaxItems items, or a response without "output"
Responses(n) ==
    LET room == IF MaxService - n < MaxItems THEN MaxService - n ELSE MaxItems
        Outputs == UNION { { [i \in 1..k |-> WithCallId(its[i], n + i)] :
                               its \in [1..k -> ServiceItems] }
                           : k \in 1..room }
    IN  { [id |-> "resp", status |-> "failed"] }
        \cup { [id |-> "resp", output |-> out] : out \in Outputs }

\* ResponseResult that reads the output with .get("output", []) outside debug
ResponseResultLenient(resp, dbg) ==
    IF "output" \notin DOMAIN resp /\ dbg
    THEN [error |-> "ValueError", output |-> <<>>]
    ELSE [error |-> None, output |-> Get(resp, "output", <<>>)]

\* lines 205-209: the exception a response raises, or the output it gives
ResponseResult(resp, dbg) ==
    IF "output" \notin DOMAIN resp /\ dbg
    THEN [error |-> "ValueError", output |-> <<>>]   \* raise ValueError(...)
    ELSE IF "output" \notin DOMAIN resp
         THEN [error |-> "KeyError", output |-> <<>>]   \* response["output"]
         ELSE [error |-> None, output |-> resp.output]

\* the counter left as it is
NextActionCountStuck(count) == count

\* line 213
NextActionCount(count) == count + 1

\* what `trace` keeps of one create_response call: the input sent, whether
\* the response had an "output" and how many items were in it
RequestEntry(input, resp) ==
    [kind |-> "request", input |-> input,
     has_output |-> "output" \in DOMAIN resp,
     n_items |-> Len(Get(resp, "output", <<>>))]

\* a request that sends only the items of this run
RequestInputNewOnly(history, its) == its

\* line 199: input=input_items + new_items
RequestInput(history, its) == history \o its

\* lines 195-209
CreateResponse ==
    /\ pc = "loop"
    /\ ~TerminalCheck(new_items)
    /\ ~CeilingCheck(max_actions, action_count)
    /\ \E resp \in Responses(served) :
          LET res == ResponseResult(resp, debug)
          IN  /\ trace' = Append(trace, RequestEntry(RequestInput(input_items, new_items), resp))
              /\ IF res.error # None
                 THEN /\ pc' = "raised"
                      /\ error' = res.error
                      /\ UNCHANGED <<new_items, output, idx, served>>
                 ELSE /\ new_items' = new_items \o res.output
                      /\ output' = res.output
                      /\ served' = served + Len(res.output)
                      /\ idx' = 1
                      /\ pc' = "for"
                      /\ UNCHANGED error
    /\ UNCHANGED <<params, action_count, surface>>
    /\ UNCHANGED outside

\* What the callback and the computer can answer while `item` is handled.
\* Only a computer_call asks them anything; the URL is asked for in a
\* browser once the action ran and no check was refused (line 117), the
\* metadata once the URL passed the denylist (line 122).  Where nothing is
\* asked there is one answer to choose from.
Answers(item) ==
    IF item.type = "computer_call"
    THEN [1..Len(Get(item, "pending_safety_checks", <<>>)) -> BOOLEAN]
    ELSE {<<>>}

UrlAnswers(item, env, ans) ==
    IF /\ item.type = "computer_call"
       /\ env = "browser"
       /\ GetAttrFound(item.action.type)
       /\ ~AskChecks(Get(item, "pending_safety_checks", <<>>), ans).refused
    THEN URLs ELSE {"https://ok.example"}

MetaAnswers(item, env, ans, url) ==
    IF UrlAnswers(item, env, ans) = URLs /\ ~CheckBlocklistedUrl(url)
    THEN MetaChoices ELSE {[callable |-> FALSE, value |-> <<>>]}

\* lines 210-211: one pass of the for loop
Dispatch ==
    /\ pc = "for"
    /\ idx <= Len(output)
    /\ \E ans \in Answers(output[idx]) :
       \E url \in UrlAnswers(output[idx], environment, ans) :
       \E meta \in MetaAnswers(output[idx], environment, ans, url) :
          LET item == output[idx]
              o == HandleItem(item, current_prompt_id, logger, surface,
                              environment, ans, url, meta)
          IN  /\ trace' = Append(trace, HandleEntry(item, surface, o))
              /\ surface' = o.surface
              /\ IF o.raised # None
                 THEN /\ pc' = "raised"
                      /\ error' = o.raised
                      /\ UNCHANGED <<new_items, idx>>
                 ELSE /\ new_items' = new_items \o o.outputs
                      /\ idx' = idx + 1
                      /\ UNCHANGED <<pc, error>>
    /\ UNCHANGED <<params, action_count, output, served>>
    /\ UNCHANGED outside

\* line 213
EndRound ==
    /\ pc = "for"
    /\ idx > Len(output)
    /\ action_count' = NextActionCount(action_count)
    /\ pc' = "loop"
    /\ UNCHANGED <<params, new_items, output, idx, error, surface, served, trace>>
    /\ UNCHANGED outside

Next == Break \/ Ceiling \/ CreateResponse \/ Dispatch \/ EndRound

Spec == Init /\ [][Next]_vars

\* ------------------------------------------------------ reading the trace
IsRequest(e) == e.kind = "request"
IsHandle(e)  == e.kind = "handle"

RoundTrips == Len(SelectSeq(trace, IsRequest))

HandleIdx  == {i \in DOMAIN trace : IsHandle(trace[i])}
RequestIdx == {i \in DOMAIN trace : IsRequest(trace[i])}

\* handle_item calls for a computer_call / a function_call
ComputerCallIdx == {i \in HandleIdx : trace[i].item.type = "computer_call"}
FunctionCallIdx == {i \in HandleIdx : trace[i].item.type = "function_call"}

IsAck(e)  == e.ev = "acknowledge"
IsCall(e) == e.ev = "call"
IsShot(e) == e.ev = "screenshot"
IsLog(e)  == e.ev = "log"

Acks(e)  == SelectSeq(e.events, IsAck)
Calls(e) == SelectSeq(e.events, IsCall)

Pending(e) == Get(e.item, "pending_safety_checks", <<>>)

\* some question of this handle_item call was answered no
Declined(e) == \E j \in DOMAIN e.events : IsAck(e.events[j]) /\ ~e.events[j].answer

IsAssistantMessage(item) ==
    Get(item, "type", None) = "message" /\ Get(item, "role", None) = "assistant"

IsLimitMarker(item) == Get(item, "type", None) = "max-actions"

OutputsFor(cid) ==
    {k \in DOMAIN new_items :
        /\ Get(new_items[k], "type", None) = "computer_call_output"
        /\ new_items[k].call_id = cid}

\* ------------------------------------------------------------------ claims

\* C1: a run of run_full_turn that returns normally returns a sequence whose
\* last element is an assistant message or the max-actions marker.
C1_LastItemTerminal ==
    pc = "returned" =>
        /\ new_items # <<>>
        /\ IsAssistantMessage(Last(new_items)) \/ IsLimitMarker(Last(new_items))

\* a run that made calls and then returned on the service's message
C1_Witness ==
    /\ pc = "returned"
    /\ Len(new_items) > 2
    /\ IsAssistantMessage(Last(new_items))

\* C2 (as claimed): for a computer_call with pending safety checks the
\* computer's operation runs only after every check was acknowledged, so a
\* declined check leaves the computer unchanged.
C2_ActionOnlyAfterAcknowledgment ==
    \A i \in ComputerCallIdx :
        LET e == trace[i] IN
        Pending(e) # <<>> =>
            /\ \A j \in DOMAIN e.events :
                   IsCall(e.events[j]) =>
                       Cardinality({k \in 1..(j-1) :
                           IsAck(e.events[k]) /\ e.events[k].answer}) = Len(Pending(e))
            /\ Declined(e) => e.surface_after = e.surface_before

\* C2 (amended): for a computer_call with pending safety checks whose action
\* the computer has, the operation runs and the screenshot is taken first,
\* the checks are put to the callback afterwards, and only the output is
\* held back: an output is returned only when every check was acknowledged,
\* and a declined check leaves the computer changed by the call.
C2_AcknowledgmentGatesOutputOnly ==
    \A i \in ComputerCallIdx :
        LET e == trace[i] IN
        (Pending(e) # <<>> /\ e.item.action.type \in ComputerAttrs) =>
            /\ Len(e.events) >= 3
            /\ IsCall(e.events[1]) /\ e.events[1].name = e.item.action.type
            /\ IsShot(e.events[2])
            /\ IsAck(e.events[3])
            /\ \A j \in DOMAIN e.events : IsCall(e.events[j]) => j = 1
            /\ e.surface_after = e.surface_before + 1
            /\ e.outputs # <<>> =>
                   /\ Len(Acks(e)) = Len(Pending(e))
                   /\ \A j \in DOMAIN Acks(e) : Acks(e)[j].answer

\* a computer_call whose first check was declined after the action had run
C2_Witness ==
    \E i \in ComputerCallIdx :
        /\ Pending(trace[i]) # <<>>
        /\ Declined(trace[i])
        /\ trace[i].surface_after = trace[i].surface_before + 1

\* C3: when the callback declines a pending safety check the run ends with
\* an error and no computer_call_output for that call is produced, returned
\* or appended to new_items.
C3_DeclineAbortsWithoutOutput ==
    \A i \in ComputerCallIdx :
        LET e == trace[i] IN
        Declined(e) =>
            /\ e.raised = "ValueError"
            /\ e.outputs = <<>>
            /\ i = Len(trace)
            /\ pc = "raised" /\ error = "ValueError"
            /\ OutputsFor(e.item.call_id) = {}

\* the second of two checks was declined and the run is over
C3_Witness ==
    /\ pc = "raised"
    /\ trace # <<>>
    /\ IsHandle(Last(trace))
    /\ Last(trace).item.type = "computer_call"
    /\ Len(Acks(Last(trace))) = 2
    /\ ~Acks(Last(trace))[2].answer
    /\ new_items # <<>>

\* C4: while one computer_call is handled the callback is asked exactly the
\* pending checks' messages in list order, once each, up to and including
\* the first declined one; an empty list asks nothing.
C4_GateCallsFollowPendingChecks ==
    \A i \in HandleIdx :
        LET e == trace[i]
            acks == Acks(e)
        IN  IF e.item.type = "computer_call" /\ e.item.action.type \in ComputerAttrs
            THEN /\ Len(acks) <= Len(Pending(e))
                 /\ \A j \in DOMAIN acks :
                        /\ acks[j].message = Pending(e)[j].message
                        /\ j < Len(acks) => acks[j].answer
                 /\ Len(acks) < Len(Pending(e)) => ~acks[Len(acks)].answer
            ELSE acks = <<>>

\* the first of two checks was declined: the second was never asked
C4_Witness ==
    \E i \in ComputerCallIdx :
        /\ Len(Pending(trace[i])) = 2
        /\ Len(Acks(trace[i])) = 1
        /\ ~Acks(trace[i])[1].answer

\* C5: with max_actions = N a run makes at most N + 1 requests to the
\* response service.
C5_RoundTripsBounded ==
    max_actions # <<>> => RoundTrips <= max_actions[1] + 1

\* a run with max_actions = 2 that made its two requests and returned
C5_Witness ==
    /\ max_actions = <<2>>
    /\ RoundTrips = 2
    /\ pc = "returned"

\* C6: with max_actions = N, a run in which no round leaves an assistant
\* item last makes exactly N requests, then appends exactly one max-actions
\* marker as the last item and returns; with N = 0 no request is made.
C6_CeilingAfterExactlyN ==
    max_actions # <<>> =>
        LET N == max_actions[1]
            markers == {k \in DOMAIN new_items : IsLimitMarker(new_items[k])}
        IN  /\ N = 0 => RoundTrips = 0
            /\ (pc = "returned" /\ ~IsAssistantMessage(Last(new_items))) =>
                   /\ RoundTrips = N
                   /\ markers = {Len(new_items)}
                   /\ Last(new_items) = LimitMessage(max_actions)
            /\ pc # "returned" => markers = {}
            /\ ~(\E k \in DOMAIN new_items :
                    Get(new_items[k], "role", None) = "assistant") => RoundTrips <= N
            /\ (pc = "loop" /\ ~TerminalCheck(new_items)) =>
                   /\ RoundTrips = action_count
                   /\ RoundTrips < N => ~ENABLED Ceiling
                   /\ RoundTrips >= N => ENABLED Ceiling

\* max_actions = 2, two rounds of computer calls, then the marker
C6_Witness ==
    /\ max_actions = <<2>>
    /\ pc = "returned"
    /\ RoundTrips = 2
    /\ Len(new_items) = 5
    /\ new_items[1].type = "computer_call"
    /\ new_items[3].type = "computer_call"
    /\ IsLimitMarker(new_items[5])

\* the first response of the run is a single assistant message
FirstResponseIsOneMessage ==
    /\ RequestIdx # {}
    /\ trace[Min(RequestIdx)].has_output
    /\ trace[Min(RequestIdx)].n_items = 1
    /\ new_items # <<>>
    /\ IsAssistantMessage(new_items[1])

\* C7: when the first response is a single assistant message the run makes
\* exactly one request and returns exactly that message, whatever the
\* caller's history.
C7_SingleMessageEndsTurn ==
    FirstResponseIsOneMessage =>
        /\ RoundTrips = 1
        /\ pc \in {"for", "loop", "returned"}
        /\ new_items = <<AssistantMessage>>
        /\ pc = "loop" => (ENABLED Break /\ ~ENABLED CreateResponse /\ ~ENABLED Ceiling)

\* the run returned the one message, from an empty history, under a ceiling
C7_Witness ==
    /\ FirstResponseIsOneMessage
    /\ pc = "returned"
    /\ input_items = <<>>
    /\ max_actions = <<1>>
    /\ Len(new_items) = 1

\* C8: a response without "output" ends the run with an error, with debug
\* on or off: nothing is appended to new_items, nothing is dispatched and no
\* further request is made.
C8_MissingOutputIsFatal ==
    \A i \in RequestIdx :
        ~trace[i].has_output =>
            /\ pc = "raised"
            /\ error \in {"ValueError", "KeyError"}
            /\ i = Len(trace)
            /\ trace[i].input = input_items \o new_items

\* debug off, the second response has no output
C8_Witness ==
    /\ ~debug
    /\ pc = "raised"
    /\ RoundTrips = 2
    /\ IsRequest(Last(trace))
    /\ ~Last(trace).has_output

\* C9: handling a function_call returns exactly one function_call_output
\* with the call's call_id and output "success", whether or not the computer
\* has an operation of that name; when it has none no operation of the
\* computer runs, and the step is logged all the same.
C9_FunctionCallAlwaysSucceeds ==
    \A i \in FunctionCallIdx :
        LET e == trace[i] IN
        /\ e.raised = None
        /\ Len(e.outputs) = 1
        /\ e.outputs[1].type = "function_call_output"
        /\ e.outputs[1].call_id = e.item.call_id
        /\ e.outputs[1].output = "success"
        /\ IF e.item.name \in ComputerAttrs
           THEN /\ Len(Calls(e)) = 1
                /\ Calls(e)[1].name = e.item.name
           ELSE /\ Calls(e) = <<>>
                /\ e.surface_after = e.surface_before
        /\ logger => /\ Len(SelectSeq(e.events, IsLog)) = 1
                     /\ IsLog(Last(e.events))
                     /\ Last(e.events).record.name = e.item.name

\* a function_call for a function the computer does not have
C9_Witness ==
    \E i \in FunctionCallIdx :
        /\ trace[i].item.name \notin ComputerAttrs
        /\ trace[i].outputs # <<>>
        /\ trace[i].events # <<>>

\* C10: a computer_call whose action the computer does not have ends the
\* run with an error before a screenshot is taken, before the callback is
\* asked and without a computer_call_output.
C10_UnknownActionIsFatal ==
    \A i \in ComputerCallIdx :
        LET e == trace[i] IN
        e.item.action.type \notin ComputerAttrs =>
            /\ e.raised = "AttributeError"
            /\ e.events = <<>>
            /\ e.outputs = <<>>
            /\ e.surface_after = e.surface_before
            /\ i = Len(trace)
            /\ pc = "raised" /\ error = "AttributeError"
            /\ OutputsFor(e.item.call_id) = {}

\* an unknown action that came with pending safety checks
C10_Witness ==
    /\ pc = "raised"
    /\ trace # <<>>
    /\ IsHandle(Last(trace))
    /\ Last(trace).item.type = "computer_call"
    /\ Last(trace).item.action.type \notin ComputerAttrs
    /\ Pending(Last(trace)) # <<>>

\* ---------------------------------------------------- handle_item, browser

IsUrl(e)  == e.ev = "get_current_url"
IsMeta(e) == e.ev = "get_page_metadata"

\* handle_item calls for a computer_call that got as far as asking the
\* computer for its URL (line 118: only a browser is asked)
UrlAskedIdx == {i \in ComputerCallIdx : SelectSeq(trace[i].events, IsUrl) # <<>>}

\* the URL get_current_url returned during this call
RawUrl(e) == SelectSeq(e.events, IsUrl)[1].url

\* what get_page_metadata returned during this call; <<>> when the computer
\* has no such method
MetaValue(e) ==
    LET m == SelectSeq(e.events, IsMeta) IN IF m = <<>> THEN <<>> ELSE m[1].value

\* the URL the claim speaks of: the metadata's full_url when there is one,
\* the raw current URL otherwise
MergedUrl(e) ==
    IF Get(MetaValue(e), "full_url", "") # "" THEN MetaValue(e).full_url ELSE RawUrl(e)

\* the StepRecord handed to the logger during this call
StepRecords(e) == SelectSeq(e.events, IsLog)

\* C11 (as claimed): in a browser the StepRecord of a computer_call has a
\* current_url, which is the metadata's full_url when the metadata has one
\* and the raw current URL otherwise.
C11_RecordCurrentUrlIsMergedUrl ==
    \A i \in UrlAskedIdx :
        LET e == trace[i] IN
        e.raised = None =>
            /\ Len(StepRecords(e)) = 1
            /\ "current_url" \in DOMAIN StepRecords(e)[1].record
            /\ StepRecords(e)[1].record.current_url = MergedUrl(e)

\* C11 (amended): in a browser the StepRecord of a computer_call never has a
\* current_url of its own; it always has page_metadata, whose full_url is
\* the metadata's full_url when the metadata has one and the raw current URL
\* otherwise, and the returned output's current_url is that same URL.
C11_RecordPageMetadataHasMergedUrl ==
    \A i \in UrlAskedIdx :
        LET e == trace[i] IN
        e.raised = None =>
            /\ Len(StepRecords(e)) = 1
            /\ "current_url" \notin DOMAIN StepRecords(e)[1].record
            /\ "page_metadata" \in DOMAIN StepRecords(e)[1].record
            /\ StepRecords(e)[1].record.page_metadata.full_url = MergedUrl(e)
            /\ Len(e.outputs) = 1
            /\ e.outputs[1].output.current_url = MergedUrl(e)
            /\ e.outputs[1].output.page_metadata = StepRecords(e)[1].record.page_metadata

\* two calls were logged: one whose metadata named another URL than the raw
\* one, and one on a computer without page metadata
C11_Witness ==
    /\ \E i \in UrlAskedIdx :
          /\ trace[i].raised = None
          /\ MetaValue(trace[i]) # <<>>
          /\ MetaValue(trace[i]).full_url # RawUrl(trace[i])
    /\ \E i \in UrlAskedIdx :
          /\ trace[i].raised = None
          /\ MetaValue(trace[i]) = <<>>

\* handle_item calls for a message, the max-actions marker or a reasoning item
QuietIdx ==
    {i \in HandleIdx : trace[i].item.type \in {"message", "max-actions", "reasoning"}}

\* C12: handling a message, the max-actions marker or a reasoning item asks
\* nothing of the computer or the callback (no action, no screenshot, no URL,
\* no metadata, no acknowledgment), returns no items and leaves the computer
\* as it was; the logger is the only collaborator called.
C12_QuietItemsTouchNothing ==
    \A i \in QuietIdx :
        LET e == trace[i] IN
        /\ e.raised = None
        /\ e.outputs = <<>>
        /\ e.surface_after = e.surface_before
        /\ \A j \in DOMAIN e.events : IsLog(e.events[j])

\* after the computer was used, a reasoning item and then the marker or a
\* message were handled
C12_Witness ==
    /\ \E i \in QuietIdx :
          trace[i].item.type = "reasoning" /\ trace[i].surface_before > 0
    /\ \E i \in QuietIdx :
          trace[i].item.type \in {"message", "max-actions"} /\ trace[i].surface_before > 0

\* computer_call handlings that found the computer on a denylisted URL
BlockedIdx == {i \in UrlAskedIdx : RawUrl(trace[i]) \in BlockedURLs}

\* C13: in a browser, when the URL after a computer_call's action is on the
\* denylist the run ends with an error at that call: nothing is returned for
\* it, no computer_call_output with its call_id is in new_items, and neither
\* the metadata is fetched nor a StepRecord logged.
C13_BlockedUrlAbortsWithoutOutput ==
    \A i \in BlockedIdx :
        LET e == trace[i] IN
        /\ e.raised = "ValueError"
        /\ e.outputs = <<>>
        /\ i = Len(trace)
        /\ pc = "raised" /\ error = "ValueError"
        /\ OutputsFor(e.item.call_id) = {}
        /\ IsUrl(Last(e.events))

\* the run ended on a denylisted URL after an earlier call had gone through
C13_Witness ==
    /\ BlockedIdx # {}
    /\ \E i \in UrlAskedIdx : trace[i].raised = None
    /\ pc = "raised"

\* ------------------------------------------------------------ termination
\* run_full_turn has ended: it returned or an exception left it
Ended == pc \in {"returned", "raised"}

\* With max_actions = <<n>>: how much of the run is left at most, counted in
\* steps.  A round is one request and at most MaxItems dispatches; a run
\* has at most n rounds.
RoundSteps == MaxItems + 3

Rank ==
    LET left == max_actions[1] - action_count
    IN  CASE Ended -> 0
          [] pc = "loop" -> left * RoundSteps + 2
          [] pc = "for"  -> (left - 1) * RoundSteps + 3 + (Len(output) + 1 - idx)

\* C14: with max_actions set every run of run_full_turn ends, returned or
\* raised, provided each call it makes returns: every step lowers a rank
\* that is never negative, so the run cannot go on forever, and a run that
\* has not ended is never stuck: its next step can be taken.
C14_RunTerminates ==
    /\ [][max_actions # <<>> => (Rank' < Rank /\ Rank' >= 0)]_vars
    /\ [](max_actions # <<>> /\ ~Ended => ENABLED Next)

\* Every step of the run is one call that returns (to the service, the
\* computer, the callback or the logger) followed by local code: a run
\* that can take a step takes one.
FairSpec == Spec /\ WF_vars(Next)

\* under FairSpec a run with max_actions set reaches its end
RunEventuallyEnds == max_actions # <<>> ~> Ended

\* a run that used up a ceiling of more than one round and then returned
\* the marker
C14_Witness ==
    /\ max_actions # <<>>
    /\ pc = "returned"
    /\ action_count = max_actions[1]
    /\ action_count > 1
    /\ IsLimitMarker(Last(new_items))

\* ================================================================ cli.py
\* main(): the read loop around run_full_turn.

\* what input("> ") can do: raise EOFError, or return a line
Inputs ==
    { [eof |-> TRUE, line |-> ""],
      [eof |-> FALSE, line |-> "exit"],
      [eof |-> FALSE, line |-> "hello"] }

\* logger.new_prompt returns str(uuid.uuid4()): an id never returned before.
\* n is the number of prompts recorded so far
PromptIds == <<"p1", "p2", "p3", "p4", "p5", "p6">>
NewPromptId(n) == PromptIds[n + 1]

\* TurnPromptId that keeps the id of the first turn
TurnPromptIdSticky(current, prompt_id) == IF current = None THEN prompt_id ELSE current

\* agent.py line 168: self.current_prompt_id = prompt_id
TurnPromptId(current, prompt_id) == prompt_id

\* StopOnMessageCheck with the flag never honoured
StopOnMessageCheckOff(stop, output_items) == FALSE

\* lines 112-115
StopOnMessageCheck(stop, output_items) ==
    stop /\ \E k \in DOMAIN output_items :
                /\ Get(output_items[k], "type", None) = "message"
                /\ Get(output_items[k], "role", None) = "assistant"

\* MaxActionsCheck that never ends the loop
MaxActionsCheckOff(limit, output_items) == FALSE

\* lines 119-121
MaxActionsCheck(limit, output_items) ==
    limit # <<>> /\ \E k \in DOMAIN output_items :
                        Get(output_items[k], "type", None) = "max-actions"

\* line 93: user_input = args.input or input("> ")
UserInputs ==
    IF args_input # None THEN {[eof |-> FALSE, line |-> args_input]} ELSE Inputs

ReadEntry(inp) ==
    [kind |-> "read", eof |-> inp.eof, line |-> inp.line, asked |-> args_input = None]

\* what the computer offers as page metadata at the start
StartMetaChoices ==
    { [callable |-> FALSE, value |-> <<>>],
      [callable |-> TRUE, value |-> [full_url |-> "https://ok.example"]] }

\* main() after parse_args and the construction of the agent; --debug and
\* --computer are left at their defaults (a local browser)
CliInit ==
    /\ input_items = <<>>
    /\ max_actions \in {<<>>} \cup { <<n>> : n \in 0..MaxActions }
    /\ debug = FALSE
    /\ logger = TRUE
    /\ environment = "browser"
    /\ current_prompt_id = None
    /\ new_items = <<>>
    /\ action_count = 0
    /\ pc = "idle"
    /\ output = <<>>
    /\ idx = 0
    /\ error = None
    /\ surface = 0
    /\ served = 0
    /\ trace = <<>>
    /\ cli_pc = "start"
    /\ items = <<>>
    /\ args_input \in {None, "hello"}
    /\ stop_on_message \in BOOLEAN
    /\ n_prompts = 0
    /\ PoolOff
    /\ TableOff
    /\ LoggerOff
    /\ CtorOff

\* lines 74-89: the first navigation of a browser, and its log record
Navigate ==
    /\ cli_pc = "start"
    /\ \E meta \in StartMetaChoices :
          LET metadata == PageMetadata(meta, "https://ok.example")
              logged == IF meta.callable
                        THEN <<[ev |-> "get_page_metadata", value |-> meta.value],
                               [ev |-> "log",
                                record |-> [type |-> "browser_state",
                                            event |-> "initial_navigation",
                                            metadata |-> metadata]]>>
                        ELSE <<>>
          IN  trace' = Append(trace, [kind |-> "navigate",
                                      events |-> <<[ev |-> "call", name |-> "goto"]>>
                                                 \o logged])
    /\ surface' = surface + 1
    /\ cli_pc' = "read"
    /\ UNCHANGED <<params, new_items, action_count, pc, output, idx, error, served,
                   items, args_input, stop_on_message, n_prompts, poolVars, tableVars, loggerVars, ctorVars>>

\* lines 93-98: "exit" or the end of the input leaves the loop
ReadExit ==
    /\ cli_pc = "read"
    /\ \E inp \in UserInputs :
          /\ inp.eof \/ inp.line = "exit"
          /\ trace' = Append(trace, ReadEntry(inp))
    /\ cli_pc' = "done"
    /\ UNCHANGED <<params, new_items, action_count, pc, output, idx, error, surface,
                   served, items, args_input, stop_on_message, n_prompts,
                   poolVars, tableVars, loggerVars, ctorVars>>

\* lines 93-101 and agent.py lines 165-170: a prompt was read; it is
\* recorded, appended to items, and run_full_turn is entered
StartTurn ==
    /\ cli_pc = "read"
    /\ \E inp \in UserInputs :
          /\ ~inp.eof /\ inp.line # "exit"
          /\ LET user_input == inp.line
                 prompt_id == NewPromptId(n_prompts)
             IN  /\ trace' = trace \o <<ReadEntry(inp),
                                         [kind |-> "new_prompt", prompt_id |-> prompt_id,
                                          content |-> user_input]>>
                 /\ items' = Append(items, [role |-> "user", content |-> user_input])
                 /\ current_prompt_id' = TurnPromptId(current_prompt_id, prompt_id)
    /\ n_prompts' = n_prompts + 1
    /\ input_items' = items'
    /\ new_items' = <<>>
    /\ action_count' = 0
    /\ output' = <<>>
    /\ idx' = 0
    /\ pc' = "loop"
    /\ cli_pc' = "turn"
    /\ UNCHANGED <<max_actions, debug, logger, environment, error, surface, served,
                   args_input, stop_on_message, poolVars, tableVars, loggerVars, ctorVars>>

\* lines 109-123: run_full_turn returned output_items
FinishTurn ==
    /\ cli_pc = "turn"
    /\ pc = "returned"
    /\ LET output_items == new_items
       IN  /\ items' = items \o output_items
           /\ trace' = Append(trace, [kind |-> "turn_end", output |-> output_items])
           /\ cli_pc' = IF \/ StopOnMessageCheck(stop_on_message, output_items)
                           \/ MaxActionsCheck(max_actions, output_items)
                        THEN "done" ELSE "read"
    /\ args_input' = None
    /\ pc' = "idle"
    /\ UNCHANGED <<params, new_items, action_count, output, idx, error, surface,
                   served, stop_on_message, n_prompts, poolVars, tableVars, loggerVars, ctorVars>>

CliNext ==
    \/ Navigate \/ ReadExit \/ StartTurn \/ FinishTurn
    \/ Break \/ Ceiling \/ CreateResponse \/ Dispatch \/ EndRound

CliSpec == CliInit /\ [][CliNext]_vars

\* ----------------------------------------------- reading the trace of main
ReadIdx      == {i \in DOMAIN trace : trace[i].kind = "read"}
NewPromptIdx == {i \in DOMAIN trace : trace[i].kind = "new_prompt"}
TurnEndIdx   == {i \in DOMAIN trace : trace[i].kind = "turn_end"}

\* a read that got "exit" or the end of the input
IsExitRead(e) == e.kind = "read" /\ (e.eof \/ e.line = "exit")

HasAssistantMessage(out) == \E k \in DOMAIN out : IsAssistantMessage(out[k])
HasLimitMarker(out)      == \E k \in DOMAIN out : IsLimitMarker(out[k])

\* a turn after which the flags say the loop must end
IsStoppingTurn(e) ==
    /\ e.kind = "turn_end"
    /\ \/ stop_on_message /\ HasAssistantMessage(e.output)
       \/ max_actions # <<>> /\ HasLimitMarker(e.output)

\* C15: with --stop-on-message the read loop ends after the first turn whose
\* output has an assistant message, with --max-actions after a turn whose
\* output has the limit marker, and on "exit" or the end of the input before
\* a turn is started: such a turn or read is the last thing that happens (no
\* prompt is read, recorded or sent after it), and the loop ends for no
\* other reason.
C15_ReadLoopEnds ==
    /\ \A i \in DOMAIN trace :
          IsStoppingTurn(trace[i]) \/ IsExitRead(trace[i]) =>
              /\ i = Len(trace)
              /\ cli_pc = "done"
    /\ cli_pc = "done" =>
          /\ pc = "idle"
          /\ trace # <<>>
          /\ IsStoppingTurn(Last(trace)) \/ IsExitRead(Last(trace))
    /\ \A i \in ReadIdx :
          IsExitRead(trace[i]) =>
              Len(SelectSeq(SubSeq(trace, 1, i), LAMBDA e : e.kind = "new_prompt"))
                  = n_prompts

\* with --stop-on-message, a turn that used the computer and then got the
\* service's message has ended the loop
C15_Witness ==
    /\ stop_on_message
    /\ cli_pc = "done"
    /\ trace # <<>>
    /\ Last(trace).kind = "turn_end"
    /\ HasAssistantMessage(Last(trace).output)
    /\ Len(Last(trace).output) > 2
    /\ RoundTrips > 1

\* the id new_prompt returned for the turn that trace[i] belongs to
PromptFor(i) ==
    LET before == {j \in NewPromptIdx : j < i}
    IN  IF before = {} THEN None
        ELSE trace[CHOOSE j \in before : \A k \in before : k <= j].prompt_id

\* C16: new_prompt is called exactly once per user turn, right after the
\* prompt was read and before run_full_turn sends or handles anything; ids
\* differ from turn to turn, and every StepRecord logged during a turn
\* carries the id returned for that turn.
C16_StepRecordsCarryTurnPromptId ==
    /\ Cardinality(NewPromptIdx) = n_prompts
    /\ \A i \in NewPromptIdx :
          /\ i > 1
          /\ trace[i - 1].kind = "read"
          /\ trace[i - 1].line = trace[i].content
          /\ \A j \in NewPromptIdx : j # i => trace[j].prompt_id # trace[i].prompt_id
    /\ \A i \in ReadIdx :
          ~IsExitRead(trace[i]) /\ i < Len(trace) => i + 1 \in NewPromptIdx
    /\ \A i \in TurnEndIdx :
          \E j \in NewPromptIdx :
              /\ j < i
              /\ \A k \in (j + 1)..(i - 1) : IsRequest(trace[k]) \/ IsHandle(trace[k])
    /\ \A i \in RequestIdx \cup HandleIdx : PromptFor(i) # None
    /\ \A i \in HandleIdx :
          \A j \in DOMAIN trace[i].events :
              IsLog(trace[i].events[j]) =>
                  trace[i].events[j].record.prompt_id = PromptFor(i)

\* two turns, each with a logged StepRecord of its own prompt id
C16_Witness ==
    \E i, j \in HandleIdx :
        /\ PromptFor(i) # PromptFor(j)
        /\ StepRecords(trace[i]) # <<>>
        /\ StepRecords(trace[j]) # <<>>
        /\ trace[j].item.type = "computer_call"

\* ========================================================== agent_pool.py
\* Runner.run_simulation and Runner.run_job_once.  A child process is
\* "running", "terminated" (SIGTERM was sent to it, it has not exited yet),
\* "killed" (SIGKILL was sent to it, it has not exited yet) or "exited".
\* procs holds the children that have not exited or whose exit code the
\* runner has not collected yet, in the order they were started.

MaxRuns    == 2   \* largest n of a job
MaxRetries == 1   \* largest retries of a job

JobNames == <<"agent_1", "agent_2">>

\* a job of the SIMULATION dict: n runs, retries, and whether timeout_sec is set
JobConfigs ==
    { [n |-> k, retries |-> r, timeout_sec |-> t] :
        k \in 0..MaxRuns, r \in 0..MaxRetries, t \in BOOLEAN }

\* exit codes a child ends with on its own
ExitCodes == {0, 1}

\* run_full_turn is not running
AgentOff ==
    /\ input_items = <<>>
    /\ max_actions = <<>>
    /\ debug = FALSE
    /\ logger = TRUE
    /\ environment = "browser"
    /\ current_prompt_id = None
    /\ new_items = <<>>
    /\ action_count = 0
    /\ pc = "idle"
    /\ output = <<>>
    /\ idx = 0
    /\ error = None
    /\ surface = 0
    /\ served = 0
    /\ trace = <<>>

\* Runner() constructed and run_simulation entered
PoolInit ==
    /\ AgentOff
    /\ CliOff
    /\ TableOff
    /\ LoggerOff
    /\ CtorOff
    /\ pool_pc = "job"
    /\ simulation \in [1..Len(JobNames) -> JobConfigs]
    /\ stop_requested = FALSE
    /\ job = 1
    /\ run_i = 0
    /\ attempt = 0
    /\ exit_code = 0
    /\ procs = <<>>

notPool == <<agentVars, cliVars, tableVars, loggerVars, ctorVars>>

IsAlive(p) == p.state \in {"running", "terminated", "killed"}

\* the sequence s without its k-th element
Without(s, k) == SubSeq(s, 1, k - 1) \o SubSeq(s, k + 1, Len(s))

\* the child run_job_once is waiting for: the one started last
Current == Len(procs)

\* lines 112-114: the SIGINT handler
Sigint ==
    /\ pool_pc \notin {"off", "done"}
    /\ ~stop_requested
    /\ stop_requested' = TRUE
    /\ UNCHANGED <<pool_pc, simulation, job, run_i, attempt, exit_code, procs, notPool>>

\* lines 224-239: the loop over the jobs; a job with n <= 0 is skipped
NextJob ==
    /\ pool_pc = "job"
    /\ IF job > Len(simulation)
       THEN /\ pool_pc' = "done"
            /\ UNCHANGED <<job, run_i>>
       ELSE IF simulation[job].n <= 0
            THEN /\ job' = job + 1
                 /\ UNCHANGED <<pool_pc, run_i>>
            ELSE /\ run_i' = 1
                 /\ pool_pc' = "run"
                 /\ UNCHANGED job
    /\ UNCHANGED <<simulation, stop_requested, attempt, exit_code, procs, notPool>>

\* lines 241-246: the top of the loop over the run indices
NextRun ==
    /\ pool_pc = "run"
    /\ IF stop_requested
       THEN /\ pool_pc' = "done"
            /\ UNCHANGED attempt
       ELSE /\ attempt' = 0
            /\ pool_pc' = "attempt"
    /\ UNCHANGED <<simulation, stop_requested, job, run_i, exit_code, procs, notPool>>

\* lines 247-248 and 164-173: attempt += 1; subprocess.Popen
StartChild ==
    /\ pool_pc = "attempt"
    /\ attempt' = attempt + 1
    /\ procs' = Append(procs, [job |-> job, run_index |-> run_i,
                               state |-> "running", code |-> 0])
    /\ pool_pc' = "wait"
    /\ UNCHANGED <<simulation, stop_requested, job, run_i, exit_code, notPool>>

\* a child ends: on its own with some exit code, or by the signal sent to
\* it.  Nobody waits for a killed child: it is gone once it has ended.
ChildExits ==
    /\ \E k \in DOMAIN procs :
          /\ IsAlive(procs[k])
          /\ \/ /\ procs[k].state = "running"
                /\ \E c \in ExitCodes :
                      procs' = [procs EXCEPT ![k].state = "exited", ![k].code = c]
             \/ /\ procs[k].state = "terminated"
                /\ procs' = [procs EXCEPT ![k].state = "exited", ![k].code = -15]
             \/ /\ procs[k].state = "killed"
                /\ procs' = Without(procs, k)
    /\ UNCHANGED <<pool_pc, simulation, stop_requested, job, run_i, attempt,
                   exit_code, notPool>>

\* line 182 and 193-197: proc.wait returned, the child has exited
WaitReturns ==
    /\ pool_pc = "wait"
    /\ procs[Current].state = "exited"
    /\ exit_code' = procs[Current].code
    /\ procs' = Without(procs, Current)
    /\ pool_pc' = "after"
    /\ UNCHANGED <<simulation, stop_requested, job, run_i, attempt, notPool>>

\* lines 183-186: the timeout of the job ran out; proc.terminate()
WaitTimesOut ==
    /\ pool_pc = "wait"
    /\ simulation[job].timeout_sec
    /\ procs[Current].state = "running"
    /\ procs' = [procs EXCEPT ![Current].state = "terminated"]
    /\ pool_pc' = "wait10"
    /\ UNCHANGED <<simulation, stop_requested, job, run_i, attempt, exit_code, notPool>>

\* line 187 and 193-197: proc.wait(10) returned
TerminateReturns ==
    /\ pool_pc = "wait10"
    /\ procs[Current].state = "exited"
    /\ exit_code' = procs[Current].code
    /\ procs' = Without(procs, Current)
    /\ pool_pc' = "after"
    /\ UNCHANGED <<simulation, stop_requested, job, run_i, attempt, notPool>>

\* lines 188-197: proc.wait(10) timed out; proc.kill() and no further wait:
\* proc.returncode is still None, so exit_code is -1
TerminateHangs ==
    /\ pool_pc = "wait10"
    /\ procs[Current].state = "terminated"
    /\ procs' = [procs EXCEPT ![Current].state = "killed"]
    /\ exit_code' = -1
    /\ pool_pc' = "after"
    /\ UNCHANGED <<simulation, stop_requested, job, run_i, attempt, notPool>>

\* line 250: attempt > (1 + retries)
GiveUp(tries, retries) == tries > 1 + retries

\* lines 249-254: the run failed and is started again
Retry ==
    /\ pool_pc = "after"
    /\ ~(exit_code = 0 \/ GiveUp(attempt, simulation[job].retries))
    /\ pool_pc' = "attempt"
    /\ UNCHANGED <<simulation, stop_requested, job, run_i, attempt, exit_code,
                   procs, notPool>>

\* lines 250-251 and 256-258: break, and on to the next run index or job
FinishRun ==
    /\ pool_pc = "after"
    /\ exit_code = 0 \/ GiveUp(attempt, simulation[job].retries)
    /\ IF run_i < simulation[job].n
       THEN /\ run_i' = run_i + 1
            /\ pool_pc' = "run"
            /\ UNCHANGED job
       ELSE /\ job' = job + 1
            /\ pool_pc' = "job"
            /\ UNCHANGED run_i
    /\ UNCHANGED <<simulation, stop_requested, attempt, exit_code, procs, notPool>>

PoolNext ==
    \/ Sigint \/ NextJob \/ NextRun \/ StartChild \/ ChildExits
    \/ WaitReturns \/ WaitTimesOut \/ TerminateReturns \/ TerminateHangs
    \/ Retry \/ FinishRun

PoolSpec == PoolInit /\ [][PoolNext]_vars

\* ---------------------------------------------- reading the runner's state
AliveIdx == {k \in DOMAIN procs : IsAlive(procs[k])}

\* position of a child in the order of the runs: job first, then run index
Before(p, q) == p.job < q.job \/ (p.job = q.job /\ p.run_index <= q.run_index)

\* the children were started in the order of the jobs and, within a job, of
\* the run indices 1..n; the one started last is the run the runner is at
StartsInOrder ==
    /\ \A k, l \in DOMAIN procs : k < l => Before(procs[k], procs[l])
    /\ \A k \in DOMAIN procs :
          /\ procs[k].job \in DOMAIN simulation
          /\ procs[k].run_index \in 1..simulation[procs[k].job].n
    /\ pool_pc \in {"wait", "wait10"} =>
          /\ procs # <<>>
          /\ procs[Current].job = job
          /\ procs[Current].run_index = run_i

\* C17 (as claimed): the runner is strictly sequential: a child is started
\* only after the child before it has exited, so that at most one child is
\* alive at any time, and the children are started in the order of the jobs
\* and of the run indices.
C17_StrictlySequential ==
    /\ Cardinality(AliveIdx) <= 1
    /\ \A k \in DOMAIN procs : k < Current => ~IsAlive(procs[k])
    /\ StartsInOrder

\* C18 (as claimed): a run index is started at most 1 + retries times, a
\* retry follows only a non-zero exit code, and with retries = 0 a run index
\* is started exactly once.
C18_AtMostRetriesReruns ==
    /\ pool_pc \in {"wait", "wait10", "after"} =>
          /\ attempt <= 1 + simulation[job].retries
          /\ simulation[job].retries = 0 => attempt = 1
    /\ pool_pc = "attempt" /\ attempt > 0 => exit_code # 0

\* C19 (as claimed): once SIGINT was received and the child that was running
\* has exited, the runner starts no child again: no retry of the same run,
\* no later run index, no later job.
C19_NoStartAfterSigint ==
    [][stop_requested /\ pool_pc \in {"after", "run", "job"} => pool_pc' # "attempt"]_vars

\* ============================================ agent.py, further claims
\* The claims below are about run_full_turn again; all are read off `trace`
\* and checked under Spec unless they say otherwise.

\* rounds whose for loop has ended: the request of a round that is still
\* being dispatched, or that raised, does not count
CompletedRounds == IF pc \in {"for", "raised"} THEN RoundTrips - 1 ELSE RoundTrips

\* handle_item calls so far that ran an operation on the computer (a call
\* runs at most one, line 91)
SurfaceActions == Cardinality({i \in HandleIdx : Calls(trace[i]) # <<>>})

\* C23: action_count is the number of completed service round-trips, whatever
\* the number of items (and of computer calls) the responses held: it is not
\* touched while the items of a response are dispatched, and with max_actions
\* set it never exceeds max_actions, which therefore bounds the round-trips
\* and not the operations run on the computer.
C23_CounterCountsRoundTrips ==
    /\ action_count = CompletedRounds
    /\ pc = "for" => action_count = RoundTrips - 1
    /\ max_actions # <<>> => action_count <= max_actions[1]

\* max_actions = 1 and one round-trip whose response held two computer
\* calls: two operations ran on the computer, the counter is 1
C23_Witness ==
    /\ max_actions = <<1>>
    /\ pc = "returned"
    /\ action_count = 1
    /\ RoundTrips = 1
    /\ SurfaceActions = 2
    /\ surface >= 2

\* the record a handle_item call logged is the one of its item
RecordIsOf(rec, item) ==
    /\ rec.type = Get(item, "type", None)
    /\ rec.prompt_id = current_prompt_id
    /\ "call_id" \in DOMAIN item => Get(rec, "call_id", item.call_id) = item.call_id

\* the handle_item calls that returned, in dispatch order, and the records
\* logged by all calls, in the order they were logged
Completed == SelectSeq(trace, LAMBDA e : IsHandle(e) /\ e.raised = None)
Logged == SelectSeq(trace, LAMBDA e : IsHandle(e) /\ StepRecords(e) # <<>>)

\* C24 (as claimed): every dispatched item has exactly one step record, and
\* it is logged after everything else its handle_item call did.
C24_OneRecordPerDispatchedItem ==
    \A i \in HandleIdx :
        LET e == trace[i] IN
        /\ Len(StepRecords(e)) = 1
        /\ IsLog(Last(e.events))
        /\ RecordIsOf(StepRecords(e)[1].record, e.item)

\* C24 (amended): every item whose handle_item call returned has exactly one
\* step record, of that item, logged as the last thing the call did: after
\* its operation on the computer, its screenshot and its safety questions,
\* and so before anything the next item's call does. A call that raised
\* logged nothing, although its operation may have run. The records are
\* therefore in dispatch order, one per completed item.
C24_OneRecordPerCompletedItem ==
    /\ \A i \in HandleIdx :
          LET e == trace[i] IN
          IF e.raised = None
          THEN /\ Len(StepRecords(e)) = 1
               /\ IsLog(Last(e.events))
               /\ RecordIsOf(StepRecords(e)[1].record, e.item)
          ELSE /\ StepRecords(e) = <<>>
               /\ i = Len(trace)
    /\ Logged = Completed

\* two computer calls were dispatched one after the other; both ran their
\* operation and each logged its record before the next began; then a third
\* item's call raised after its operation had run
C24_Witness ==
    \E i \in HandleIdx :
        /\ i + 1 \in ComputerCallIdx
        /\ trace[i].item.type = "computer_call"
        /\ Calls(trace[i]) # <<>> /\ Calls(trace[i + 1]) # <<>>
        /\ IsLog(Last(trace[i].events))
        /\ trace[i + 1].raised # None
        /\ trace[i + 1].surface_after > trace[i + 1].surface_before

IsPrefix(a, b) == Len(a) <= Len(b) /\ \A k \in DOMAIN a : b[k] = a[k]

\* C25: the conversation only grows within a run. The input of every request
\* is the caller's history followed by the new_items of that moment; the
\* input of an earlier request is a prefix of the input of every later one,
\* and of the history followed by the present new_items; no step removes or
\* reorders an item of new_items, and none changes the caller's history.
C25_ConversationIsAppendOnly ==
    /\ [](/\ \A i \in RequestIdx :
                /\ IsPrefix(input_items, trace[i].input)
                /\ IsPrefix(trace[i].input, input_items \o new_items)
                /\ \A j \in RequestIdx : i < j => IsPrefix(trace[i].input, trace[j].input))
    /\ [][/\ input_items' = input_items
          /\ IsPrefix(new_items, new_items')
          /\ (Len(trace') > Len(trace) /\ IsRequest(Last(trace'))) =>
                Last(trace').input = input_items \o new_items]_vars

\* a run on a history of one user message that made two requests: the
\* second sent the history, the first response's call and its output
C25_Witness ==
    /\ input_items = <<UserMessage>>
    /\ \E i, j \in RequestIdx :
          /\ i < j
          /\ trace[i].input = <<UserMessage>>
          /\ Len(trace[j].input) = 3
          /\ trace[j].input[2].type = "computer_call"
          /\ trace[j].input[3].type = "computer_call_output"

IsCallItem(item) == Get(item, "type", None) \in {"function_call", "computer_call"}

\* the type of the follow-up item of a call
OutputType(item) ==
    IF item.type = "function_call" THEN "function_call_output" ELSE "computer_call_output"

\* positions in new_items of the follow-up items of the call at position k
FollowUpsOf(k) ==
    {m \in DOMAIN new_items :
        /\ Get(new_items[m], "type", None) = OutputType(new_items[k])
        /\ new_items[m].call_id = new_items[k].call_id}

LastRequestIdx == CHOOSE i \in RequestIdx : \A j \in RequestIdx : j <= i

\* the handle_item calls of the round being dispatched, and what they returned
RoundHandles == [k \in 1..(Len(trace) - LastRequestIdx) |-> trace[LastRequestIdx + k]]

RECURSIVE Concat(_)
Concat(seqs) == IF seqs = <<>> THEN <<>> ELSE Head(seqs) \o Concat(Tail(seqs))

RoundFollowUps == Concat([k \in DOMAIN RoundHandles |-> RoundHandles[k].outputs])

Suffix(seq, n) == SubSeq(seq, Len(seq) - n + 1, Len(seq))

\* C26: while the items of a response are dispatched, new_items ends with
\* all the items of the response followed by the follow-up items of those
\* dispatched so far, in dispatch order; the items are dispatched in the
\* order of the response. In the sequence a run returns, every function_call
\* and computer_call has exactly one follow-up item with its call_id, later
\* in the sequence, and the follow-ups are in the order of their calls.
C26_OutputsFollowTheirCalls ==
    /\ pc = "for" =>
          /\ Len(RoundHandles) = idx - 1
          /\ \A k \in DOMAIN RoundHandles : RoundHandles[k].item = output[k]
          /\ Len(new_items) >= Len(output) + Len(RoundFollowUps)
          /\ Suffix(new_items, Len(output) + Len(RoundFollowUps)) = output \o RoundFollowUps
    /\ pc = "returned" =>
          /\ \A k \in DOMAIN new_items :
                IsCallItem(new_items[k]) =>
                    /\ Cardinality(FollowUpsOf(k)) = 1
                    /\ \A m \in FollowUpsOf(k) : m > k
          /\ \A k1, k2 \in DOMAIN new_items :
                (IsCallItem(new_items[k1]) /\ IsCallItem(new_items[k2]) /\ k1 < k2) =>
                    \A m1 \in FollowUpsOf(k1), m2 \in FollowUpsOf(k2) : m1 < m2

\* a returned run whose first response held a function call and a computer
\* call: both calls come first, then their outputs in the same order
C26_Witness ==
    /\ pc = "returned"
    /\ Len(new_items) >= 4
    /\ new_items[1].type = "function_call"
    /\ new_items[2].type = "computer_call"
    /\ new_items[3].type = "function_call_output"
    /\ new_items[4].type = "computer_call_output"
    /\ new_items[3].call_id = new_items[1].call_id
    /\ new_items[4].call_id = new_items[2].call_id

\* the response of the last round held an assistant message and a call
MessageWithCall(out) ==
    /\ \E k \in DOMAIN out : IsAssistantMessage(out[k])
    /\ \E k \in DOMAIN out : IsCallItem(out[k])

\* C27: once all items of a response that held an assistant message and a
\* function_call or computer_call (in either order) are dispatched, the last
\* item of new_items is a call's follow-up and not the message, so the loop
\* does not stop: it sends the next request or appends the max-actions
\* marker, and a run that returns after such a round returns on the marker.
C27_MessageWithCallDoesNotEndTurn ==
    MessageWithCall(output) =>
        /\ (pc = "loop" /\ action_count = RoundTrips) =>
              /\ Get(Last(new_items), "type", None)
                    \in {"function_call_output", "computer_call_output"}
              /\ ~TerminalCheck(new_items)
              /\ ~ENABLED Break
              /\ ENABLED CreateResponse \/ ENABLED Ceiling
        /\ pc = "returned" => IsLimitMarker(Last(new_items))

\* both orders: a response of a message then a call, and one of a call then
\* a message, each fully dispatched with the loop about to go on
C27_Witness ==
    /\ pc = "loop"
    /\ action_count = RoundTrips
    /\ Len(output) = 2
    /\ IsAssistantMessage(output[1])
    /\ output[2].type = "computer_call"
    /\ Last(new_items).type = "computer_call_output"

C27_WitnessCallFirst ==
    /\ pc = "loop"
    /\ action_count = RoundTrips
    /\ Len(output) = 2
    /\ output[1].type = "function_call"
    /\ IsAssistantMessage(output[2])
    /\ Last(new_items).type = "function_call_output"

\* handle_item calls that returned a computer_call_output carrying current_url
ReportedIdx ==
    {i \in ComputerCallIdx :
        /\ trace[i].outputs # <<>>
        /\ "current_url" \in DOMAIN trace[i].outputs[1].output}

ReportedUrl(e) == e.outputs[1].output.current_url

\* C28 (as claimed): the current_url of a returned computer_call_output is
\* the URL that check_blocklisted_url was given in that call and let pass,
\* so it is never a URL of the denylist.
C28_ReportedUrlPassedDenylist ==
    \A i \in ReportedIdx :
        /\ ReportedUrl(trace[i]) = RawUrl(trace[i])
        /\ ~CheckBlocklistedUrl(ReportedUrl(trace[i]))

\* what the code does ensure: the URL get_current_url gave passed the check,
\* and the URL reported is the full_url of the page metadata when it has one
RawUrlPassedDenylist ==
    \A i \in ReportedIdx :
        /\ ~CheckBlocklistedUrl(RawUrl(trace[i]))
        /\ ReportedUrl(trace[i]) = MergedUrl(trace[i])

\* why a handle_item call raised: the three raises of the computer_call branch
MissingOperation(e) ==
    e.item.type = "computer_call" /\ ~GetAttrFound(e.item.action.type)
BlockedUrl(e) ==
    SelectSeq(e.events, IsUrl) # <<>> /\ CheckBlocklistedUrl(RawUrl(e))

\* the items dispatched so far and the items the log has a record of
DispatchedItems == [k \in DOMAIN SelectSeq(trace, IsHandle) |-> SelectSeq(trace, IsHandle)[k].item]
LoggedItems == [k \in DOMAIN Logged |-> Logged[k].item]

\* C29: with well-formed items and operations that do not fail, a
\* handle_item call raises only for a computer_call whose operation the
\* computer lacks, one of whose safety checks was declined, or whose URL is
\* on the denylist; such a call logs no record and is the last of the run. The items with a record are the dispatched items without the
\* aborted one: a prefix of the dispatch order, short of it by one item
\* exactly when the run ended in such an abort.
C29_AbortedItemLeavesNoRecord ==
    /\ \A i \in HandleIdx :
          LET e == trace[i] IN
          e.raised # None =>
              /\ MissingOperation(e) \/ Declined(e) \/ BlockedUrl(e)
              /\ \A j \in DOMAIN e.events : ~IsLog(e.events[j])
              /\ i = Len(trace)
              /\ pc = "raised"
    /\ IsPrefix(LoggedItems, DispatchedItems)
    /\ Len(DispatchedItems) - Len(LoggedItems) =
          IF trace # <<>> /\ IsHandle(Last(trace)) /\ Last(trace).raised # None
          THEN 1 ELSE 0

\* one item was dispatched and logged, then a computer_call without an
\* operation on the computer aborted the run: one record, two items
C29_Witness ==
    /\ pc = "raised"
    /\ Len(DispatchedItems) = 2
    /\ Len(LoggedItems) = 1
    /\ MissingOperation(Last(trace))

\* the same for a declined check and for a denylisted URL
C29_WitnessDeclined ==
    pc = "raised" /\ Len(LoggedItems) = 1 /\ IsHandle(Last(trace)) /\ Declined(Last(trace))

C29_WitnessBlocked ==
    pc = "raised" /\ Len(LoggedItems) = 1 /\ IsHandle(Last(trace)) /\ BlockedUrl(Last(trace))

\* C30 (checked with the read loop of cli.py around the runs): no request to
\* the response service has the max-actions marker in its input. Within a
\* run the marker is only ever the last item of new_items and the run has
\* returned; once the CLI's items hold it the read loop is over, so no later
\* turn sends it.
C30_MarkerNeverSent ==
    /\ \A i \in RequestIdx : ~HasLimitMarker(trace[i].input)
    /\ HasLimitMarker(new_items) =>
          /\ pc \in {"returned", "idle"}
          /\ IsLimitMarker(Last(new_items))
          /\ \A k \in 1..(Len(new_items) - 1) : ~IsLimitMarker(new_items[k])
    /\ HasLimitMarker(items) => cli_pc = "done"
    /\ ~HasLimitMarker(input_items)

\* the second turn of a CLI session made a request and then hit the
\* ceiling: its marker is in the CLI's items and the loop is over
C30_Witness ==
    /\ cli_pc = "done"
    /\ HasLimitMarker(items)
    /\ n_prompts = 2
    /\ \E i \in RequestIdx : \E j \in TurnEndIdx : j < i

\* ================================================== structured_table.py
\* build_structured_table: one pass over the records of a JSONL log.

MaxRecords == 3   \* longest log

PromptIdsInLog == {"p1", "p2"}

\* the records a log can hold: prompts, steps of the agent, and the
\* browser_state record, which has no prompt_id
LogRecords ==
    { [type |-> "user_prompt", prompt_id |-> q, content |-> "hello"] : q \in PromptIdsInLog }
    \cup { [type |-> "message", prompt_id |-> q, role |-> "assistant",
            content |-> <<[text |-> "done"]>>] : q \in PromptIdsInLog }
    \cup { [type |-> "computer_call", prompt_id |-> q,
            action |-> [type |-> "click", x |-> 10, y |-> 20]] : q \in PromptIdsInLog }
    \cup { [type |-> "computer_call", prompt_id |-> "p1",
            action |-> [type |-> "click", x |-> 10, y |-> 20],
            page_metadata |-> [full_url |-> "https://example.com/",
                               page_title |-> "Example",
                               domain |-> "example.com"]] }
    \cup { [type |-> "browser_state", event |-> "initial_navigation"] }

Logs == UNION { [1..n -> LogRecords] : n \in 0..MaxRecords }

TableInit ==
    /\ AgentOff
    /\ CliOff
    /\ PoolOff
    /\ LoggerOff
    /\ CtorOff
    /\ table_pc = "loop"
    /\ records \in Logs
    /\ pos = 0
    /\ step_counters = <<>>
    /\ rows = <<>>

\* NextStepId that counts the prompts seen, not the steps of this prompt
NextStepIdByPrompts(counters, prompt_id) == Cardinality(DOMAIN counters) + 1

\* line 81: step_counters.get(prompt_id, 0) + 1
NextStepId(counters, prompt_id) == Get(counters, prompt_id, 0) + 1

\* lines 83-96: the Action, X, Y and Text of a step
StepFields(record) ==
    LET action == Get(record, "action", <<>>)
        action_type == Get(action, "type", Get(record, "name", ""))
    IN  [Action |-> action_type,
         X |-> Get(action, "x", ""),
         Y |-> Get(action, "y", ""),
         Text |-> IF action_type = "type" THEN Get(action, "text", "")
                  ELSE IF record.type = "message"
                       THEN [k \in DOMAIN Get(record, "content", <<>>) |->
                               Get(record.content[k], "text", "")]
                       ELSE IF record.type = "reasoning"
                            THEN Get(record, "summary", "")
                            ELSE ""]

\* lines 104-118: the row of a record
Row(record, step_id, fields) ==
    [Prompt_Id |-> Get(record, "prompt_id", None),
     Step_Id |-> step_id,
     Type |-> Get(record, "type", None),
     Action |-> fields.Action, X |-> fields.X, Y |-> fields.Y, Text |-> fields.Text]

\* lines 65-79 and 104-118: the loop reads a user_prompt record
PromptRow ==
    /\ table_pc = "loop"
    /\ pos < Len(records)
    /\ LET record == records[pos + 1]
       IN  /\ Get(record, "type", None) = "user_prompt"
           /\ rows' = Append(rows, Row(record, 0,
                                       [Action |-> "", X |-> "", Y |-> "",
                                        Text |-> Get(record, "content", "")]))
    /\ pos' = pos + 1
    /\ UNCHANGED <<table_pc, records, step_counters, agentVars, cliVars, poolVars, loggerVars, ctorVars>>

\* lines 65-76 and 80-118: the loop reads any other record
StepRow ==
    /\ table_pc = "loop"
    /\ pos < Len(records)
    /\ LET record == records[pos + 1]
           prompt_id == Get(record, "prompt_id", None)
           step_id == NextStepId(step_counters, prompt_id)
       IN  /\ Get(record, "type", None) # "user_prompt"
           /\ step_counters' = MergeRec(step_counters, [q \in {prompt_id} |-> step_id])
           /\ rows' = Append(rows, Row(record, step_id, StepFields(record)))
    /\ pos' = pos + 1
    /\ UNCHANGED <<table_pc, records, agentVars, cliVars, poolVars, loggerVars, ctorVars>>

\* lines 134-137: csv.DictWriter writes every value as its str()
WriteCsv ==
    /\ table_pc = "loop"
    /\ pos = Len(records)
    /\ rows' = [k \in DOMAIN rows |-> [rows[k] EXCEPT !.Step_Id = ToString(@)]]
    /\ table_pc' = "written"
    /\ UNCHANGED <<records, pos, step_counters, agentVars, cliVars, poolVars, loggerVars, ctorVars>>

TableNext == PromptRow \/ StepRow \/ WriteCsv

TableSpec == TableInit /\ [][TableNext]_vars

\* --------------------------------------------------- reading the table
\* Step_Id as the loop computed it / as the csv file holds it
StepIdIs(row, n) ==
    IF table_pc = "written" THEN row.Step_Id = ToString(n) ELSE row.Step_Id = n

IsPromptRecord(r) == Get(r, "type", None) = "user_prompt"

\* the non-prompt records before the k-th with the prompt_id of the k-th
Previous(k) ==
    {j \in 1..(k - 1) :
        /\ ~IsPromptRecord(records[j])
        /\ Get(records[j], "prompt_id", None) = Get(records[k], "prompt_id", None)}

Max(S) == CHOOSE x \in S : \A y \in S : y <= x

\* C20: the table has one row per record read, in the order of the log (all
\* of them once it is written); the row of a user_prompt record has Step_Id
\* 0; the row of any other record has Step_Id 1 when no earlier non-prompt
\* record has its prompt_id, and otherwise one more than the Step_Id of the
\* last such record: every prompt_id has a counter of its own.
C20_OneRowPerRecordStepIdsPerPrompt ==
    /\ Len(rows) = pos
    /\ table_pc = "written" => Len(rows) = Len(records)
    /\ \A k \in DOMAIN rows :
          /\ rows[k].Prompt_Id = Get(records[k], "prompt_id", None)
          /\ rows[k].Type = records[k].type
          /\ IF IsPromptRecord(records[k])
             THEN StepIdIs(rows[k], 0)
             ELSE IF Previous(k) = {}
                  THEN StepIdIs(rows[k], 1)
                  ELSE \E n \in 1..Len(records) :
                          /\ StepIdIs(rows[Max(Previous(k))], n)
                          /\ StepIdIs(rows[k], n + 1)

\* a written table of a log in which the steps of two prompts alternate:
\* the second step of the first prompt comes after a step of the other
C20_Witness ==
    /\ table_pc = "written"
    /\ \E k \in DOMAIN rows :
          /\ rows[k].Step_Id = "2"
          /\ k > 2
          /\ rows[k - 1].Step_Id = "1"
          /\ rows[k - 1].Prompt_Id # rows[k].Prompt_Id
          /\ rows[k - 1].Type # "user_prompt"

\* --------------------------------------- page metadata in the table
HasPageMetadata(r) == "page_metadata" \in DOMAIN r

\* C21 (as claimed): the row of a record that carries page_metadata has the
\* columns URL, Page_Title and Domain, holding the metadata's full_url,
\* page_title and domain.
C21_RowCarriesPageMetadata ==
    \A k \in DOMAIN rows :
        HasPageMetadata(records[k]) =>
            /\ Get(rows[k], "URL", None) = records[k].page_metadata.full_url
            /\ Get(rows[k], "Page_Title", None) = records[k].page_metadata.page_title
            /\ Get(rows[k], "Domain", None) = records[k].page_metadata.domain

\* what the rows of lines 104-118 hold: the eleven columns of the
\* fieldnames list, none of them taken from page_metadata
RowColumnsIgnorePageMetadata ==
    \A k \in DOMAIN rows :
        DOMAIN rows[k] \cap {"URL", "Page_Title", "Domain"} = {}

\* =================================================== analytics/logger.py
\* AnalyticsLogger: prompts.csv and steps.csv of one run directory.

MaxCalls == 3   \* calls made on one logger

AgentId == "run-1"

\* lines 21-38: the header rows
prompt_fields == <<"agent_id", "prompt_id", "prompt", "timestamp">>
step_fields ==
    <<"agent_id", "prompt_id", "step_id", "step_type", "action_type", "role",
      "text", "button", "x", "y", "call_id", "screenshot", "timestamp",
      "duration", "details">>

\* lines 100-108
known_fields == {"action_type", "role", "text", "button", "x", "y", "call_id"}

\* str(uuid.uuid4()): a value that was not drawn before
Uuid4(n) == "uuid-" \o ToString(n + 1)

\* what callers pass as **data: known fields, a screenshot (also an empty
\* one), and keys the logger does not know
StepData ==
    { <<>>,
      [action_type |-> "click", x |-> 1, y |-> 2, button |-> "left",
       screenshot |-> "abc123"],
      [role |-> "assistant", text |-> "done", screenshot |-> ""],
      [action_type |-> "goto", url |-> "https://example.com/", step_id |-> "mine"] }

PromptContents == {"hello", "bye"}

\* lines 90-91: `if screenshot_b64:` is false for None and for ""
Truthy(v) == v \notin {None, ""}

\* the csv module writes str(value); x and y are numbers, the rest strings
CsvStr(key, value) == IF key \in {"x", "y"} THEN ToString(value) ELSE value

\* json.dumps(extras)
JsonDumps(extras) == [json |-> extras]

\* a file opened with "w" for every row: the header and this row remain
RewriteRows(file, row) == <<file[1], row>>

\* lines 62-64 and 132-134: open(path, "a") and writerow
AppendRow(file, row) == Append(file, row)

\* lines 40-56: the state a constructed logger leaves on disk
LoggerInit ==
    /\ AgentOff
    /\ CliOff
    /\ PoolOff
    /\ TableOff
    /\ CtorOff
    /\ prompts_csv = <<prompt_fields>>
    /\ steps_csv = <<step_fields>>
    /\ screenshot_files = <<>>
    /\ n_uuids = 0
    /\ calls = <<>>

notLogger == <<agentVars, cliVars, poolVars, tableVars, ctorVars>>

\* lines 58-65
NewPrompt ==
    /\ Len(calls) < MaxCalls
    /\ \E content \in PromptContents :
          LET prompt_id == Uuid4(n_uuids)
          IN  /\ prompts_csv' = AppendRow(prompts_csv,
                                   [agent_id |-> AgentId, prompt_id |-> prompt_id,
                                    prompt |-> content])
              /\ calls' = Append(calls, [op |-> "new_prompt", content |-> content,
                                         returned |-> prompt_id])
    /\ n_uuids' = n_uuids + 1
    /\ UNCHANGED <<steps_csv, screenshot_files, notLogger>>

\* lines 109-130: the row of a step, as the csv file holds it
StepRowOf(prompt_id, step_id, step_type, screenshot_file, duration, data) ==
    LET extras == [k \in (DOMAIN data) \ known_fields |-> data[k]]
    IN  MergeRec(
            [agent_id |-> AgentId, prompt_id |-> prompt_id, step_id |-> step_id,
             step_type |-> step_type, screenshot |-> screenshot_file,
             duration |-> ToString(duration),
             details |-> IF DOMAIN extras # {} THEN JsonDumps(extras) ELSE ""],
            [k \in known_fields |->
                IF k \in DOMAIN data THEN CsvStr(k, data[k]) ELSE ""])

\* lines 67-136
LogStep ==
    /\ Len(calls) < MaxCalls
    /\ \E prompt_id \in {prompts_csv[k].prompt_id : k \in 2..Len(prompts_csv)} \cup {"p0"},
          step_type \in {"computer_call", "message"},
          given \in StepData :
          LET step_id == Uuid4(n_uuids)
              screenshot_b64 == Get(given, "screenshot", None)
              screenshot_file == IF Truthy(screenshot_b64) THEN step_id \o ".txt" ELSE ""
              data == [k \in (DOMAIN given) \ {"screenshot"} |-> given[k]]
          IN  /\ screenshot_files' =
                    IF Truthy(screenshot_b64)
                    THEN MergeRec(screenshot_files,
                                  [f \in {screenshot_file} |-> screenshot_b64])
                    ELSE screenshot_files
              /\ steps_csv' = AppendRow(steps_csv,
                                 StepRowOf(prompt_id, step_id, step_type,
                                           screenshot_file, 5, data))
              /\ calls' = Append(calls, [op |-> "log_step", prompt_id |-> prompt_id,
                                         step_type |-> step_type, data |-> given,
                                         returned |-> step_id])
    /\ n_uuids' = n_uuids + 1
    /\ UNCHANGED <<prompts_csv, notLogger>>

LoggerNext == NewPrompt \/ LogStep

LoggerSpec == LoggerInit /\ [][LoggerNext]_vars

\* ------------------------------------------------- reading the two files
StepCalls == SelectSeq(calls, LAMBDA c : c.op = "log_step")
PromptCalls == SelectSeq(calls, LAMBDA c : c.op = "new_prompt")

\* every row a file holds now is still there, unchanged, after the step,
\* and the step adds at most one row
OnlyAppended(file, next_file) ==
    /\ Len(next_file) \in {Len(file), Len(file) + 1}
    /\ \A k \in DOMAIN file : next_file[k] = file[k]

\* the row matches the call: the returned step_id, the known fields given
\* (as the csv module writes them), and the screenshot file, if any
RowMatchesCall(row, call) ==
    /\ row.step_id = call.returned
    /\ row.prompt_id = call.prompt_id
    /\ row.step_type = call.step_type
    /\ \A k \in known_fields \cap DOMAIN call.data : row[k] = CsvStr(k, call.data[k])
    /\ IF Truthy(Get(call.data, "screenshot", None))
       THEN /\ row.screenshot = call.returned \o ".txt"
            /\ row.screenshot \in DOMAIN screenshot_files
            /\ screenshot_files[row.screenshot] = call.data.screenshot
       ELSE row.screenshot = ""

\* C22: the step log is append-only. steps.csv holds its header and then one
\* row per log_step call, in the order of the calls, each carrying the
\* step_id that call returned and the known fields it was given; a call
\* given a (non-empty) screenshot stored it in <step_id>.txt, which the row's
\* screenshot column names. prompts.csv holds its header and one row per
\* new_prompt call with the prompt_id returned. No step rewrites or removes
\* a row or a screenshot file written earlier.
C22_StepLogIsAppendOnly ==
    /\ [](/\ Len(steps_csv) = 1 + Len(StepCalls)
          /\ steps_csv[1] = step_fields
          /\ \A j \in DOMAIN StepCalls : RowMatchesCall(steps_csv[j + 1], StepCalls[j])
          /\ Len(prompts_csv) = 1 + Len(PromptCalls)
          /\ prompts_csv[1] = prompt_fields
          /\ \A j \in DOMAIN PromptCalls :
                /\ prompts_csv[j + 1].prompt_id = PromptCalls[j].returned
                /\ prompts_csv[j + 1].prompt = PromptCalls[j].content)
    /\ [][/\ OnlyAppended(steps_csv, steps_csv')
          /\ OnlyAppended(prompts_csv, prompts_csv')
          /\ \A f \in DOMAIN screenshot_files :
                /\ f \in DOMAIN screenshot_files'
                /\ screenshot_files'[f] = screenshot_files[f]]_vars

\* a prompt and then two steps were logged, the second with a screenshot
C22_Witness ==
    /\ Len(prompts_csv) = 2
    /\ Len(steps_csv) = 3
    /\ steps_csv[2].screenshot = ""
    /\ steps_csv[3].screenshot = "uuid-3.txt"
    /\ steps_csv[3].x = "1"
    /\ steps_csv[2].prompt_id = prompts_csv[2].prompt_id
    /\ "uuid-3.txt" \in DOMAIN screenshot_files

\* ============================================= agent.py, Agent.__init__
\* Several Agent instances constructed in one process. A Python list is an
\* object: `self.tools = tools` makes the agent refer to the list it was
\* given, and `self.tools += [...]` extends that very list.

MaxAgents == 3   \* agents constructed in one process

\* the computers an Agent can be given; "None" is computer=None
Computers == {"playwright", "mac"}

Dimensions(computer) == IF computer = "playwright" THEN <<1600, 900>> ELSE <<1024, 768>>
Environment(computer) == IF computer = "playwright" THEN "browser" ELSE "mac"

\* lines 40-47: the entry the constructor adds for a computer
ComputerTool(computer) ==
    [type |-> "computer-preview",
     display_width |-> Dimensions(computer)[1],
     display_height |-> Dimensions(computer)[2],
     environment |-> Environment(computer)]

\* a list the caller owns and passes to more than one Agent
CallerTools == <<[type |-> "function", name |-> "back"]>>

\* the lists a caller builds anew for one constructor call
FreshRefs == <<"own1", "own2", "own3", "own4", "own5">>

\* what the tools argument can be: left out (the default value of line 24,
\* one list made when the def statement ran), the caller's list, or a list
\* made for this call
ToolsArgs == {"default", "caller", "fresh"}

ToolsRef(arg, n) == IF arg = "fresh" THEN FreshRefs[n + 1] ELSE arg

\* the process has loaded agent.py and the caller has made its list
CtorInit ==
    /\ AgentOff
    /\ CliOff
    /\ PoolOff
    /\ TableOff
    /\ LoggerOff
    /\ tool_lists = [r \in {"default", "caller"} |->
                        IF r = "default" THEN <<>> ELSE CallerTools]
    /\ agents = <<>>
    /\ sent = <<>>

notCtor == <<agentVars, cliVars, poolVars, tableVars, loggerVars>>

\* lines 30 and 38-47: self.tools = tools; self.tools += [...]. The list
\* `ref` itself grows, for everyone who refers to it
ExtendInPlace(lists, ref, entries) ==
    MergeRec(lists, [r \in {ref} |-> Get(lists, ref, <<>>) \o entries])

\* lines 21-47: Agent(computer=..., tools=...)
Construct ==
    /\ Len(agents) < MaxAgents
    /\ \E computer \in Computers \cup {None}, arg \in ToolsArgs :
          LET ref == ToolsRef(arg, Len(agents))
              entries == IF computer # None THEN <<ComputerTool(computer)>> ELSE <<>>
          IN  /\ tool_lists' = ExtendInPlace(tool_lists, ref, entries)
              /\ agents' = Append(agents, [computer |-> computer, tools |-> ref])
    /\ UNCHANGED <<sent, notCtor>>

\* lines 197-202: create_response(..., tools=self.tools, ...)
SendTools ==
    /\ \E a \in DOMAIN agents :
          sent' = [agent |-> a, tools |-> tool_lists[agents[a].tools]]
    /\ UNCHANGED <<tool_lists, agents, notCtor>>

CtorNext == Construct \/ SendTools

CtorSpec == CtorInit /\ [][CtorNext]_vars

\* ------------------------------------------------ reading the tool lists
PreviewEntries(tools) ==
    SelectSeq(tools, LAMBDA t : t.type = "computer-preview")

\* agents constructed with a computer and the list `ref`
SharersOf(ref) ==
    {a \in DOMAIN agents : agents[a].tools = ref /\ agents[a].computer # None}

\* C31 (as claimed): the tools an Agent with a computer sends hold exactly
\* one computer-preview entry, the one of its own computer, however many
\* agents were constructed before it; and the caller's list is as the caller
\* made it.
C31_OneComputerToolPerAgent ==
    /\ sent # <<>> =>
          (agents[sent.agent].computer # None =>
              PreviewEntries(sent.tools) = <<ComputerTool(agents[sent.agent].computer)>>)
    /\ tool_lists["caller"] = CallerTools

\* what the constructor does ensure: every list holds one computer-preview
\* entry per agent with a computer that was constructed on it, in the order
\* of construction, so only an agent that shares its list with no other
\* such agent sends exactly its own entry
ListsAccumulateComputerTools ==
    \A ref \in DOMAIN tool_lists :
        /\ Len(PreviewEntries(tool_lists[ref])) = Cardinality(SharersOf(ref))
        /\ \A a \in SharersOf(ref) :
              \E k \in DOMAIN tool_lists[ref] :
                  tool_lists[ref][k] = ComputerTool(agents[a].computer)

\* the second of two agents constructed without a tools argument, each with
\* a computer, sends two computer-preview entries
SecondAgentSendsTwoEntries ==
    /\ sent # <<>>
    /\ sent.agent = 2
    /\ agents[1].tools = "default" /\ agents[2].tools = "default"
    /\ Len(PreviewEntries(sent.tools)) = 2

====
